---- MODULE Spec2Model ----
(***************************************************************************)
(* A model of glib/gthread-posix.c: the GMutex, GRecMutex, GRWLock, GCond, *)
(* GPrivate and system-thread wrappers over the POSIX thread primitives.   *)
(*                                                                         *)
(* Every g_* operation is translated from its C body.  The native call it  *)
(* makes (a pthread call) is modelled by its POSIX contract, as a state of *)
(* the native object (mutex_locked, cond_waiters, ...).  A thread's        *)
(* position (pc) is the caller's view: "in" means the caller has returned  *)
(* from a locking call and has not yet called unlock.                      *)
(***************************************************************************)
EXTENDS Integers, FiniteSets, Sequences, TLC

\* ---------------------------------------------------------------- bounds
NThreads == 3
MaxCalls == 5
MaxInc == 2
MaxNow == 1

Threads == 1..NThreads

\* ------------------------------------------------------ native constants
\* errno values the wrappers compare a native status against
ETIMEDOUT == 110
EBUSY == 16
EAGAIN == 11
EINVAL == 22
EPERM == 1

\* one tick of the model clock, in nanoseconds (half a second)
TickNs == 500000 * 1000

NULL == [null |-> TRUE]

VARIABLES
  pc,            \* [Threads -> position]  caller's position w.r.t. the GMutex
  mutex_locked,  \* mutex->impl: the native mutex is locked
  cond_waiters,  \* cond->impl: threads blocked on the native condition
  status,        \* [Threads -> native status of the wait the thread is in]
  waitfn,        \* [Threads -> the wait function the thread is in / was last in]
  end_time,      \* [Threads -> struct timespec handed to the native wait, or NULL]
  wake,          \* [Threads -> what ended the native wait]
  ret,           \* [Threads -> value last returned to the caller]
  now,           \* the clock the native timed wait reads, in ticks
  counter,       \* the shared counter of the callers
  tmp,           \* [Threads -> counter value read inside the critical section]
  done,          \* [Threads -> increments completed]
  calls,         \* API calls made so far (bounded by MaxCalls)
  \* GRWLock
  rw_writer,     \* lock->impl: a thread holds the native write lock
  rw_readers,    \* lock->impl: number of native read locks held
  rw_prefer_writer, \* the platform blocks new readers while a writer waits
  rwpc,          \* [Threads -> position in a blocking GRWLock call]
  rheld,         \* [Threads -> read locks the caller acquired and not released]
  wheld,         \* [Threads -> the caller acquired the write lock]
  rwret,         \* [Threads -> value returned by the caller's last trylock]
  \* GRecMutex
  rec_impl,      \* rec_mutex->impl: 0 (NULL) or the published native handle
  rec_owner,     \* [Handles -> owner of the native recursive mutex, 0: none]
  rec_count,     \* [Handles -> lock count of the native recursive mutex]
  rec_live,      \* native handles allocated and not freed
  rec_two_reads, \* the build loads rec_mutex->impl twice in g_rec_mutex_get_impl
  rec_crashed,   \* a native call was made on a NULL handle
  rpc,           \* [Threads -> position inside a GRecMutex call]
  rop,           \* [Threads -> the GRecMutex call the thread is in]
  rimpl,         \* [Threads -> the local variable impl of g_rec_mutex_get_impl]
  held,          \* [Threads -> acquisitions the caller made and not released]
  rret,          \* [Threads -> value last returned by g_rec_mutex_trylock]
  \* GPrivate
  key_ready,     \* key->ready
  key_created,   \* key->key holds a key that pthread_key_create created
  pabort,        \* g_thread_abort was called by g_private_set
  single_value,  \* key->single_value
  specific,      \* [Threads -> the thread's value under the native key key->key]
  ppc,           \* [Threads -> position inside g_private_get / g_private_set]
  pready,        \* [Threads -> the value of key->ready the call has read]
  parg,          \* [Threads -> the argument value of the g_private_set call]
  pret,          \* [Threads -> value last returned by g_private_get]
  pown,          \* [Threads -> value of the thread's last set begun after readiness]
  pany,          \* value of the last set that stored into the fallback
  pcalls,        \* g_private_get / g_private_set calls made so far
  \* GThread
  th_state,      \* [ThreadHandles -> state of the native thread behind it]
  th_joinable,   \* [ThreadHandles -> the thread was created joinable]
  th_joined,     \* [ThreadHandles -> g_system_thread_join on it has returned]
  th_effects,    \* [ThreadHandles -> side effects its started function performed]
  th_seen,       \* [ThreadHandles -> side effects the joiner saw at join's return]
  gerror,        \* *error of the last g_system_thread_create call
  aborted,       \* the process was terminated by g_error
  cr,            \* the last g_system_thread_create call: native statuses, outcome
  \* the status of the native call and what the operation does with it
  ab_op,         \* the operation last called
  ab_native,     \* the native call it made
  ab_status,     \* the status the native call returned
  ab_result,     \* how the operation ended: "void", "TRUE", "FALSE", "aborted"
  diag,          \* the diagnostic printed: its operation and its status position
  ab_terminated, \* abort () was called
  \* the allocator behind the GRecMutex handles
  rec_allocs,    \* native handles allocated so far (g_slice_new)
  rec_frees,     \* native handles freed so far (g_slice_free)
  rec_cleared,   \* g_rec_mutex_clear has been called
  \* deadlines handed to pthread_cond_timedwait
  dl_fn,         \* the timed wait called last
  dl_abs,        \* its abs_time argument
  dl_end,        \* the struct timespec it passed to the native wait
  dl_now         \* the current time, in seconds

mcvars == <<pc, mutex_locked, cond_waiters, status, waitfn, end_time, wake,
            ret, now, counter, tmp, done, calls>>

rwvars == <<rw_writer, rw_readers, rw_prefer_writer, rwpc, rheld, wheld,
           rwret>>

recvars == <<rec_impl, rec_owner, rec_count, rec_live, rec_two_reads,
             rec_crashed, rpc, rop, rimpl, held, rret>>

privvars == <<key_ready, key_created, pabort, single_value, specific, ppc, pready, parg, pret,
              pown, pany, pcalls>>

thrvars == <<th_state, th_joinable, th_joined, th_effects, th_seen, gerror,
             aborted, cr>>

abvars == <<ab_op, ab_native, ab_status, ab_result, diag, ab_terminated>>

clrvars == <<rec_allocs, rec_frees, rec_cleared>>

dlvars == <<dl_fn, dl_abs, dl_end, dl_now>>

extvars == <<privvars, thrvars, abvars, clrvars, dlvars>>

vars == <<mcvars, rwvars, recvars, extvars>>

\* ------------------------------------------------------------ time values
\* GTimeVal values a caller passes to g_cond_timed_wait: the instants of the
\* model clock
GTimeVals == {[tv_sec |-> d \div 2, tv_usec |-> (d % 2) * 500000] : d \in 0..MaxNow}

\* gint64 microsecond values a caller passes to g_cond_timedwait
AbsTimes == {d * 500000 : d \in 0..MaxNow}

\* g_cond_timed_wait, lines 712-713
TimeValToTimespec(abs_time) ==
  [tv_sec |-> abs_time.tv_sec, tv_nsec |-> abs_time.tv_usec * 1000]

\* variant: the deadline is moved by the current time
Int64ToTimespec_rebased(abs_time) ==
  [tv_sec |-> abs_time \div 1000000 + dl_now,
   tv_nsec |-> (abs_time % 1000000) * 1000]

\* g_cond_timedwait, lines 746-747 (C division and remainder, abs_time >= 0)
Int64ToTimespec(abs_time) ==
  [tv_sec |-> abs_time \div 1000000, tv_nsec |-> (abs_time % 1000000) * 1000]

TimespecNs(ts) == ts.tv_sec * 1000000000 + ts.tv_nsec

\* the seconds and microseconds a caller builds deadlines from
DeadlineSecs == {0, 1, 59, 2047}

DeadlineUsecs == {0, 1, 999, 1000, 500000, 999999}

\* the current times at which the timed waits are called
MaxClock == 4

\* gint64 microsecond deadlines passed to g_cond_timedwait
DeadlineInt64s == {sec * 1000000 + usec : sec \in DeadlineSecs, usec \in DeadlineUsecs}

\* GTimeVal deadlines passed to g_cond_timed_wait
DeadlineTimeVals == [tv_sec : DeadlineSecs, tv_usec : DeadlineUsecs]

\* g_cond_timedwait up to its native call: end_time is computed from abs_time
\* and handed to pthread_cond_timedwait
DeadlineTimedwait(abs_time) ==
  /\ dl_fn' = "g_cond_timedwait"
  /\ dl_abs' = abs_time
  /\ dl_end' = Int64ToTimespec(abs_time)
  /\ UNCHANGED dl_now

\* g_cond_timed_wait with a GTimeVal, up to its native call
DeadlineTimedWait(abs_time) ==
  /\ dl_fn' = "g_cond_timed_wait"
  /\ dl_abs' = abs_time
  /\ dl_end' = TimeValToTimespec(abs_time)
  /\ UNCHANGED dl_now

\* time passes between the calls
DeadlineTick ==
  /\ dl_now < MaxClock
  /\ dl_now' = dl_now + 1
  /\ UNCHANGED <<dl_fn, dl_abs, dl_end>>

\* pthread_cond_timedwait: the absolute time has passed
Passed(ts) == TimespecNs(ts) <= now * TickNs

\* ------------------------------------------------------------ caller view
\* threads that have acquired the GMutex and not yet released it
Holders == {t \in Threads : pc[t] \in {"in", "inc"}}

CanCall == calls < MaxCalls

\* a new API call by t forgets what its previous call returned
Forget(f, t) == [f EXCEPT ![t] = "none"]

NewCall(t) ==
  /\ CanCall
  /\ calls' = calls + 1
  /\ waitfn' = Forget(waitfn, t)
  /\ wake' = Forget(wake, t)
  /\ end_time' = [end_time EXCEPT ![t] = NULL]
  /\ status' = [status EXCEPT ![t] = 0]

\* ---------------------------------------------------------------- GMutex
\* variant: the lock call returns without waiting for the mutex to be free
g_mutex_lock_nowait(t) ==
  /\ pc[t] = "out"
  /\ NewCall(t)
  /\ mutex_locked' = TRUE
  /\ pc' = [pc EXCEPT ![t] = "in"]
  /\ ret' = Forget(ret, t)
  /\ UNCHANGED <<cond_waiters, now, counter, tmp, done>>

\* pthread_mutex_lock returns 0 once the mutex could be locked
g_mutex_lock(t) ==
  /\ pc[t] = "out"
  /\ ~mutex_locked
  /\ NewCall(t)
  /\ mutex_locked' = TRUE
  /\ pc' = [pc EXCEPT ![t] = "in"]
  /\ ret' = Forget(ret, t)
  /\ UNCHANGED <<cond_waiters, now, counter, tmp, done>>

\* pthread_mutex_unlock by the holder; the caller's record of what its last
\* call returned ends with its critical section
g_mutex_unlock(t) ==
  /\ pc[t] = "in"
  /\ mutex_locked' = FALSE
  /\ pc' = [pc EXCEPT ![t] = "out"]
  /\ waitfn' = Forget(waitfn, t)
  /\ wake' = Forget(wake, t)
  /\ ret' = Forget(ret, t)
  /\ end_time' = [end_time EXCEPT ![t] = NULL]
  /\ status' = [status EXCEPT ![t] = 0]
  /\ UNCHANGED <<cond_waiters, now, counter, tmp, done, calls>>

\* pthread_mutex_trylock: 0 when it locked the mutex, EBUSY when it is locked
\* (also by the caller: g_mutex_init makes a non-recursive mutex)
pthread_mutex_trylock_status == IF mutex_locked THEN EBUSY ELSE 0

\* variant: the status test is inverted, EBUSY is reported as success
g_mutex_trylock_inverted(t) ==
  /\ pc[t] \in {"out", "in"}
  /\ NewCall(t)
  /\ IF pthread_mutex_trylock_status = 0
       THEN /\ mutex_locked' = TRUE
            /\ pc' = [pc EXCEPT ![t] = "in"]
            /\ ret' = [ret EXCEPT ![t] = "FALSE"]
       ELSE /\ UNCHANGED mutex_locked
            /\ pc' = [pc EXCEPT ![t] = "in"]
            /\ ret' = [ret EXCEPT ![t] = "TRUE"]
  /\ UNCHANGED <<cond_waiters, now, counter, tmp, done>>

g_mutex_trylock(t) ==
  /\ pc[t] \in {"out", "in"}
  /\ NewCall(t)
  /\ IF pthread_mutex_trylock_status = 0
       THEN /\ mutex_locked' = TRUE
            /\ pc' = [pc EXCEPT ![t] = "in"]
            /\ ret' = [ret EXCEPT ![t] = "TRUE"]
       ELSE /\ UNCHANGED <<mutex_locked, pc>>
            /\ ret' = [ret EXCEPT ![t] = "FALSE"]
  /\ UNCHANGED <<cond_waiters, now, counter, tmp, done>>

\* ------------------------------------------------- the callers' increment
IncRead(t) ==
  /\ pc[t] = "in"
  /\ done[t] < MaxInc
  /\ tmp' = [tmp EXCEPT ![t] = counter]
  /\ pc' = [pc EXCEPT ![t] = "inc"]
  /\ UNCHANGED <<mutex_locked, cond_waiters, status, waitfn, end_time, wake,
                 ret, now, counter, done, calls>>

IncWrite(t) ==
  /\ pc[t] = "inc"
  /\ counter' = tmp[t] + 1
  /\ done' = [done EXCEPT ![t] = done[t] + 1]
  /\ pc' = [pc EXCEPT ![t] = "in"]
  /\ UNCHANGED <<mutex_locked, cond_waiters, status, waitfn, end_time, wake,
                 ret, now, tmp, calls>>

\* ----------------------------------------------------------------- GCond
\* variant: the mutex is released before the thread is registered on the
\* condition (the registration is left to a later step that never comes
\* before a signal can)
Park_unregistered(t, fn, ts) ==
  /\ pc[t] = "in"
  /\ CanCall
  /\ calls' = calls + 1
  /\ mutex_locked' = FALSE
  /\ UNCHANGED cond_waiters
  /\ pc' = [pc EXCEPT ![t] = "parked"]
  /\ waitfn' = [waitfn EXCEPT ![t] = fn]
  /\ end_time' = [end_time EXCEPT ![t] = ts]
  /\ status' = [status EXCEPT ![t] = 0]
  /\ wake' = [wake EXCEPT ![t] = "none"]
  /\ ret' = [ret EXCEPT ![t] = "none"]
  /\ UNCHANGED <<now, counter, tmp, done>>

\* pthread_cond_wait / pthread_cond_timedwait: release the mutex and block on
\* the condition in one atomic step
Park(t, fn, ts) ==
  /\ pc[t] = "in"
  /\ CanCall
  /\ calls' = calls + 1
  /\ mutex_locked' = FALSE
  /\ cond_waiters' = cond_waiters \cup {t}
  /\ pc' = [pc EXCEPT ![t] = "parked"]
  /\ waitfn' = [waitfn EXCEPT ![t] = fn]
  /\ end_time' = [end_time EXCEPT ![t] = ts]
  /\ status' = [status EXCEPT ![t] = 0]
  /\ wake' = [wake EXCEPT ![t] = "none"]
  /\ ret' = [ret EXCEPT ![t] = "none"]
  /\ UNCHANGED <<now, counter, tmp, done>>

\* pthread_cond_timedwait with an absolute time that has already passed:
\* ETIMEDOUT without blocking; the mutex is nonetheless released and
\* re-acquired
PastDeadline(t, fn, ts) ==
  /\ pc[t] = "in"
  /\ CanCall
  /\ calls' = calls + 1
  /\ mutex_locked' = FALSE
  /\ pc' = [pc EXCEPT ![t] = "woken"]
  /\ waitfn' = [waitfn EXCEPT ![t] = fn]
  /\ end_time' = [end_time EXCEPT ![t] = ts]
  /\ status' = [status EXCEPT ![t] = ETIMEDOUT]
  /\ wake' = [wake EXCEPT ![t] = "past"]
  /\ ret' = [ret EXCEPT ![t] = "none"]
  /\ UNCHANGED <<cond_waiters, now, counter, tmp, done>>

pthread_cond_timedwait(t, fn, ts) ==
  IF Passed(ts) THEN PastDeadline(t, fn, ts) ELSE Park(t, fn, ts)

g_cond_wait(t) == Park(t, "g_cond_wait", NULL)

g_cond_timed_wait(t, abs_time) ==
  IF abs_time = NULL
    THEN Park(t, "g_cond_timed_wait", NULL)
    ELSE pthread_cond_timedwait(t, "g_cond_timed_wait",
                                TimeValToTimespec(abs_time))

g_cond_timedwait(t, abs_time) ==
  pthread_cond_timedwait(t, "g_cond_timedwait", Int64ToTimespec(abs_time))

\* the threads in S stop blocking on the condition, with native status st
Unblock(S, st, why) ==
  /\ cond_waiters' = cond_waiters \ S
  /\ pc' = [t \in Threads |-> IF t \in S THEN "woken" ELSE pc[t]]
  /\ status' = [t \in Threads |-> IF t \in S THEN st ELSE status[t]]
  /\ wake' = [t \in Threads |-> IF t \in S THEN why ELSE wake[t]]

\* variant: a signal may unblock no thread at all
SignalSets_none == SUBSET cond_waiters

\* variant: a signal is also delivered to threads that already stopped
\* blocking (and overwrites the status they were unblocked with)
SignalSets_rewake ==
  {S \in SUBSET {t \in Threads : pc[t] \in {"parked", "woken"}} : S # {}}

\* pthread_cond_signal unblocks at least one of the threads blocked on the
\* condition, if any
SignalSets == {S \in SUBSET cond_waiters : S # {}}

g_cond_signal(t) ==
  /\ pc[t] \in {"out", "in"}
  /\ CanCall
  /\ calls' = calls + 1
  /\ IF cond_waiters = {}
       THEN UNCHANGED <<cond_waiters, pc, status, wake>>
       ELSE \E S \in SignalSets : Unblock(S, 0, "signal")
  /\ UNCHANGED <<mutex_locked, waitfn, end_time, ret, now, counter, tmp, done>>

\* variant: broadcast unblocks one thread only
BroadcastSet_one ==
  IF cond_waiters = {} THEN {} ELSE {CHOOSE t \in cond_waiters : TRUE}

\* pthread_cond_broadcast unblocks all threads blocked on the condition
BroadcastSet == cond_waiters

g_cond_broadcast(t) ==
  /\ pc[t] \in {"out", "in"}
  /\ CanCall
  /\ calls' = calls + 1
  /\ Unblock(BroadcastSet, 0, "broadcast")
  /\ UNCHANGED <<mutex_locked, waitfn, end_time, ret, now, counter, tmp, done>>

\* the native timed wait ends with ETIMEDOUT once the absolute time passed
Timeout(t) ==
  /\ t \in cond_waiters
  /\ end_time[t] # NULL
  /\ Passed(end_time[t])
  /\ Unblock({t}, ETIMEDOUT, "timeout")
  /\ UNCHANGED <<mutex_locked, waitfn, end_time, ret, now, counter, tmp, done,
                 calls>>

\* POSIX: spurious wakeups from pthread_cond_wait and pthread_cond_timedwait
\* may occur
SpuriousWakeup(t) ==
  /\ t \in cond_waiters
  /\ Unblock({t}, 0, "spurious")
  /\ UNCHANGED <<mutex_locked, waitfn, end_time, ret, now, counter, tmp, done,
                 calls>>

\* variant: ETIMEDOUT is reported as TRUE
WaitResult_timeout_true(fn, st) ==
  IF fn = "g_cond_wait" THEN "void" ELSE "TRUE"

\* what the wait function returns for the native status
WaitResult(fn, st) ==
  IF fn = "g_cond_wait" THEN "void"
  ELSE IF st = 0 THEN "TRUE"
  ELSE IF st = ETIMEDOUT THEN "FALSE"
  ELSE "abort"

\* variant: the wait returns without re-acquiring the mutex
WaitReturn_norelock(t) ==
  /\ pc[t] = "woken"
  /\ UNCHANGED mutex_locked
  /\ pc' = [pc EXCEPT ![t] = "in"]
  /\ ret' = [ret EXCEPT ![t] =
       IF end_time[t] = NULL /\ waitfn[t] = "g_cond_timed_wait"
         THEN "TRUE" ELSE WaitResult(waitfn[t], status[t])]
  /\ UNCHANGED <<cond_waiters, status, waitfn, end_time, wake, now, counter,
                 tmp, done, calls>>

\* the native wait re-acquires the mutex and returns its status; the wrapper
\* returns to the caller
WaitReturn(t) ==
  /\ pc[t] = "woken"
  /\ ~mutex_locked
  /\ mutex_locked' = TRUE
  /\ pc' = [pc EXCEPT ![t] = "in"]
  /\ ret' = [ret EXCEPT ![t] =
       IF end_time[t] = NULL /\ waitfn[t] = "g_cond_timed_wait"
         THEN "TRUE" ELSE WaitResult(waitfn[t], status[t])]
  /\ UNCHANGED <<cond_waiters, status, waitfn, end_time, wake, now, counter,
                 tmp, done, calls>>

Tick ==
  /\ now < MaxNow
  /\ now' = now + 1
  /\ UNCHANGED <<pc, mutex_locked, cond_waiters, status, waitfn, end_time,
                 wake, ret, counter, tmp, done, calls>>

\* --------------------------------------------------------------- GRWLock
\* a blocking call is entered (the thread is then blocked in the native call)
\* and completes once the native lock can be taken
RWCall(t, to) ==
  /\ rwpc[t] = "run"
  /\ CanCall
  /\ calls' = calls + 1
  /\ rwpc' = [rwpc EXCEPT ![t] = to]
  /\ rwret' = [rwret EXCEPT ![t] = "none"]
  /\ UNCHANGED <<rw_writer, rw_readers, rw_prefer_writer, rheld, wheld>>

\* pthread_rwlock_wrlock: the caller holds no lock on it (otherwise undefined)
g_rw_lock_writer_lock_call(t) ==
  /\ rheld[t] = 0 /\ ~wheld[t]
  /\ RWCall(t, "wwait")

\* variant: the write lock is granted while readers hold the lock
WriteLockFree_ignoring_readers == ~rw_writer

\* the native write lock is free: no writer and no reader holds it
WriteLockFree == ~rw_writer /\ rw_readers = 0

g_rw_lock_writer_lock(t) ==
  /\ rwpc[t] = "wwait"
  /\ WriteLockFree
  /\ rw_writer' = TRUE
  /\ wheld' = [wheld EXCEPT ![t] = TRUE]
  /\ rwpc' = [rwpc EXCEPT ![t] = "run"]
  /\ UNCHANGED <<rw_readers, rw_prefer_writer, rheld, rwret, calls>>

\* variant: the native call grants the write lock while readers hold the lock
pthread_rwlock_trywrlock_ignoring_readers == IF ~rw_writer THEN 0 ELSE EBUSY

\* pthread_rwlock_trywrlock: takes the write lock and returns 0, or returns
\* EBUSY at once when any thread holds the lock
pthread_rwlock_trywrlock == IF WriteLockFree THEN 0 ELSE EBUSY

\* if (pthread_rwlock_trywrlock (&lock->impl) != 0) return FALSE; return TRUE
g_rw_lock_writer_trylock(t) ==
  /\ rwpc[t] = "run"
  /\ CanCall
  /\ calls' = calls + 1
  /\ IF pthread_rwlock_trywrlock = 0
       THEN /\ rw_writer' = TRUE
            /\ wheld' = [wheld EXCEPT ![t] = TRUE]
       ELSE UNCHANGED <<rw_writer, wheld>>
  /\ rwret' = [rwret EXCEPT ![t] =
                 IF pthread_rwlock_trywrlock # 0 THEN "FALSE" ELSE "TRUE"]
  /\ UNCHANGED <<rw_readers, rw_prefer_writer, rwpc, rheld>>

g_rw_lock_writer_unlock(t) ==
  /\ rwpc[t] = "run"
  /\ wheld[t]
  /\ rw_writer' = FALSE
  /\ wheld' = [wheld EXCEPT ![t] = FALSE]
  /\ rwret' = [rwret EXCEPT ![t] = "none"]
  /\ UNCHANGED <<rw_readers, rw_prefer_writer, rwpc, rheld, calls>>

\* pthread_rwlock_rdlock: the caller does not hold the write lock
g_rw_lock_reader_lock_call(t) ==
  /\ ~wheld[t]
  /\ RWCall(t, "rwait")

\* variant: a read lock is granted only while no thread holds any lock
ReadLockFree_exclusive == ~rw_writer /\ rw_readers = 0

\* the native read lock can be taken: no writer holds the lock and, where the
\* platform prefers writers, no writer is blocked on it
ReadLockFree ==
  /\ ~rw_writer
  /\ rw_prefer_writer => \A u \in Threads : rwpc[u] # "wwait"

g_rw_lock_reader_lock(t) ==
  /\ rwpc[t] = "rwait"
  /\ ReadLockFree
  /\ rw_readers' = rw_readers + 1
  /\ rheld' = [rheld EXCEPT ![t] = rheld[t] + 1]
  /\ rwpc' = [rwpc EXCEPT ![t] = "run"]
  /\ UNCHANGED <<rw_writer, rw_prefer_writer, wheld, rwret, calls>>

\* pthread_rwlock_tryrdlock: takes a read lock and returns 0, or returns
\* EBUSY at once when the read lock cannot be taken
pthread_rwlock_tryrdlock == IF ReadLockFree THEN 0 ELSE EBUSY

\* if (pthread_rwlock_tryrdlock (&lock->impl) != 0) return FALSE; return TRUE
g_rw_lock_reader_trylock(t) ==
  /\ rwpc[t] = "run"
  /\ CanCall
  /\ calls' = calls + 1
  /\ IF pthread_rwlock_tryrdlock = 0
       THEN /\ rw_readers' = rw_readers + 1
            /\ rheld' = [rheld EXCEPT ![t] = rheld[t] + 1]
       ELSE UNCHANGED <<rw_readers, rheld>>
  /\ rwret' = [rwret EXCEPT ![t] =
                 IF pthread_rwlock_tryrdlock # 0 THEN "FALSE" ELSE "TRUE"]
  /\ UNCHANGED <<rw_writer, rw_prefer_writer, rwpc, wheld>>

g_rw_lock_reader_unlock(t) ==
  /\ rwpc[t] = "run"
  /\ rheld[t] > 0
  /\ rw_readers' = rw_readers - 1
  /\ rheld' = [rheld EXCEPT ![t] = rheld[t] - 1]
  /\ rwret' = [rwret EXCEPT ![t] = "none"]
  /\ UNCHANGED <<rw_writer, rw_prefer_writer, rwpc, wheld, calls>>

\* ------------------------------------------------------------- GRecMutex
\* native handles: thread t's candidate (g_rec_mutex_impl_new called by t in
\* g_rec_mutex_get_impl) is handle t, the one g_rec_mutex_init allocates is
\* handle NThreads + 1; 0 is NULL
Handles == 1..(NThreads + 1)

InitHandle == NThreads + 1

RecFrame == UNCHANGED <<rec_two_reads>>

\* entry of g_rec_mutex_lock / g_rec_mutex_trylock: the call of
\* g_rec_mutex_get_impl, which first loads rec_mutex->impl into impl
RecCall(t, op) ==
  /\ ~rec_crashed
  /\ rpc[t] = "run"
  /\ CanCall
  /\ calls' = calls + 1
  /\ rop' = [rop EXCEPT ![t] = op]
  /\ rimpl' = [rimpl EXCEPT ![t] = rec_impl]
  /\ rpc' = [rpc EXCEPT ![t] = "test"]
  /\ rret' = [rret EXCEPT ![t] = "none"]
  /\ UNCHANGED <<rec_impl, rec_owner, rec_count, rec_live, rec_crashed, held>>
  /\ RecFrame

g_rec_mutex_lock_call(t) == RecCall(t, "lock")

g_rec_mutex_trylock_call(t) == RecCall(t, "trylock")

\* the test mutex->impl == NULL: the field is read without synchronisation,
\* so the build either reuses the value loaded into impl or loads it again
ImplIsNull(t) == IF rec_two_reads THEN rec_impl = 0 ELSE rimpl[t] = 0

g_rec_mutex_get_impl_test(t) ==
  /\ ~rec_crashed
  /\ rpc[t] = "test"
  /\ rpc' = [rpc EXCEPT ![t] = IF ImplIsNull(t) THEN "new" ELSE "native"]
  /\ UNCHANGED <<rec_impl, rec_owner, rec_count, rec_live, rec_crashed, rop,
                 rimpl, held, rret, calls>>
  /\ RecFrame

\* impl = g_rec_mutex_impl_new ()
g_rec_mutex_impl_new(t) ==
  /\ ~rec_crashed
  /\ rpc[t] = "new"
  /\ rec_live' = rec_live \cup {t}
  /\ rimpl' = [rimpl EXCEPT ![t] = t]
  /\ rpc' = [rpc EXCEPT ![t] = "cas"]
  /\ UNCHANGED <<rec_impl, rec_owner, rec_count, rec_crashed, rop, held, rret,
                 calls>>
  /\ RecFrame

\* g_atomic_pointer_compare_and_exchange (&mutex->impl, NULL, impl), and
\* g_rec_mutex_impl_free (impl) when it fails
g_rec_mutex_get_impl_cas(t) ==
  /\ ~rec_crashed
  /\ rpc[t] = "cas"
  /\ IF rec_impl = 0
       THEN rec_impl' = rimpl[t] /\ UNCHANGED rec_live
       ELSE rec_live' = rec_live \ {rimpl[t]} /\ UNCHANGED rec_impl
  /\ rpc' = [rpc EXCEPT ![t] = "reread"]
  /\ UNCHANGED <<rec_owner, rec_count, rec_crashed, rop, rimpl, held, rret,
                 calls>>
  /\ RecFrame

\* impl = mutex->impl
g_rec_mutex_get_impl_reread(t) ==
  /\ ~rec_crashed
  /\ rpc[t] = "reread"
  /\ rimpl' = [rimpl EXCEPT ![t] = rec_impl]
  /\ rpc' = [rpc EXCEPT ![t] = "native"]
  /\ UNCHANGED <<rec_impl, rec_owner, rec_count, rec_live, rec_crashed, rop,
                 held, rret, calls>>
  /\ RecFrame

\* a native call on the NULL handle g_rec_mutex_get_impl returned
RecNullHandle(t) ==
  /\ ~rec_crashed
  /\ rpc[t] = "native"
  /\ rimpl[t] = 0
  /\ rec_crashed' = TRUE
  /\ UNCHANGED <<rec_impl, rec_owner, rec_count, rec_live, rpc, rop, rimpl,
                 held, rret, calls>>
  /\ RecFrame

\* variant: the native mutex is not recursive-counting: a lock by the owner
\* leaves the count as it is
RecAcquire_nocount(t, h) ==
  /\ rec_owner' = [rec_owner EXCEPT ![h] = t]
  /\ rec_count' = [rec_count EXCEPT ![h] = IF rec_count[h] = 0 THEN 1 ELSE rec_count[h]]
  /\ held' = [held EXCEPT ![t] = held[t] + 1]

\* a PTHREAD_MUTEX_RECURSIVE mutex can be locked by t when it is unowned or
\* owned by t; each lock adds one to its count
RecCanLock(t, h) == rec_owner[h] \in {0, t}

RecAcquire(t, h) ==
  /\ rec_owner' = [rec_owner EXCEPT ![h] = t]
  /\ rec_count' = [rec_count EXCEPT ![h] = rec_count[h] + 1]
  /\ held' = [held EXCEPT ![t] = held[t] + 1]

\* the call returns: its local variables are gone
RecReturn(t) ==
  /\ rpc' = [rpc EXCEPT ![t] = "run"]
  /\ rop' = [rop EXCEPT ![t] = "none"]
  /\ rimpl' = [rimpl EXCEPT ![t] = 0]

\* pthread_mutex_lock (g_rec_mutex_get_impl (mutex))
g_rec_mutex_lock(t) ==
  /\ ~rec_crashed
  /\ rpc[t] = "native" /\ rop[t] = "lock"
  /\ rimpl[t] # 0
  /\ RecCanLock(t, rimpl[t])
  /\ RecAcquire(t, rimpl[t])
  /\ RecReturn(t)
  /\ UNCHANGED <<rec_impl, rec_live, rec_crashed, rret, calls>>
  /\ RecFrame

\* pthread_mutex_trylock (g_rec_mutex_get_impl (rec_mutex)) != 0 ? FALSE : TRUE
g_rec_mutex_trylock(t) ==
  /\ ~rec_crashed
  /\ rpc[t] = "native" /\ rop[t] = "trylock"
  /\ rimpl[t] # 0
  /\ IF RecCanLock(t, rimpl[t])
       THEN /\ RecAcquire(t, rimpl[t])
            /\ rret' = [rret EXCEPT ![t] = "TRUE"]
       ELSE /\ UNCHANGED <<rec_owner, rec_count, held>>
            /\ rret' = [rret EXCEPT ![t] = "FALSE"]
  /\ RecReturn(t)
  /\ UNCHANGED <<rec_impl, rec_live, rec_crashed, calls>>
  /\ RecFrame

\* pthread_mutex_unlock (rec_mutex->impl), by a caller that holds the mutex
g_rec_mutex_unlock(t) ==
  /\ ~rec_crashed
  /\ rpc[t] = "run"
  /\ held[t] > 0
  /\ rec_count' = [rec_count EXCEPT ![rec_impl] = rec_count[rec_impl] - 1]
  /\ rec_owner' = [rec_owner EXCEPT ![rec_impl] =
                     IF rec_count[rec_impl] = 1 THEN 0 ELSE rec_owner[rec_impl]]
  /\ held' = [held EXCEPT ![t] = held[t] - 1]
  /\ rret' = [rret EXCEPT ![t] = "none"]
  /\ UNCHANGED <<rec_impl, rec_live, rec_crashed, rpc, rop, rimpl, calls>>
  /\ RecFrame

\* variant: g_rec_mutex_clear leaves the handle allocated
g_rec_mutex_clear_nofree(t) ==
  /\ ~rec_crashed
  /\ ~rec_cleared
  /\ \A u \in Threads : rpc[u] = "run" /\ held[u] = 0
  /\ rec_cleared' = TRUE
  /\ UNCHANGED recvars

\* g_rec_mutex_clear, called once, when no thread holds the mutex or is inside
\* a call on it: g_rec_mutex_impl_free (rec_mutex->impl) if the field is set
g_rec_mutex_clear(t) ==
  /\ ~rec_crashed
  /\ ~rec_cleared
  /\ \A u \in Threads : rpc[u] = "run" /\ held[u] = 0
  /\ rec_live' = IF rec_impl # 0 THEN rec_live \ {rec_impl} ELSE rec_live
  /\ rec_cleared' = TRUE
  /\ UNCHANGED <<rec_impl, rec_owner, rec_count, rec_two_reads, rec_crashed,
                 rpc, rop, rimpl, held, rret>>

\* the allocator's count of the handles handed out and taken back in a step
RecLedger ==
  /\ rec_allocs' = rec_allocs + Cardinality(rec_live' \ rec_live)
  /\ rec_frees' = rec_frees + Cardinality(rec_live \ rec_live')

\* -------------------------------------------------------------- GPrivate
\* the pointers the callers store; "NULL" is the null pointer
Pointers == {"NULL", "p1", "p2"}

\* variant: the new key starts with the fallback value in every thread
pthread_key_create_migrating == [t \in Threads |-> single_value]

\* pthread_key_create: under a new key every thread's value is NULL
pthread_key_create == [t \in Threads |-> "NULL"]

\* g_private_init, called once for the slot: pthread_key_create (&key->key,
\* notify), whose status st is not looked at, then key->ready = TRUE
g_private_init(t, st) ==
  /\ ~pabort
  /\ ~key_ready
  /\ ppc[t] = "idle"
  /\ key_created' = (st = 0)
  /\ specific' = IF st = 0 THEN pthread_key_create ELSE specific
  /\ key_ready' = TRUE
  /\ UNCHANGED <<pabort, single_value, ppc, pready, parg, pret, pown, pany,
                 pcalls>>

\* variant: the native store is visible to every thread
pthread_setspecific_shared(t, value) == [u \in Threads |-> value]

\* pthread_setspecific: the value of the calling thread under the key
pthread_setspecific(t, value) == [specific EXCEPT ![t] = value]

\* pthread_getspecific
pthread_getspecific(t) == specific[t]

\* entry of g_private_get: the test of key->ready, read without
\* synchronisation
g_private_get_call(t) ==
  /\ ~pabort
  /\ ppc[t] = "idle"
  /\ pcalls < MaxCalls
  /\ pcalls' = pcalls + 1
  /\ ppc' = [ppc EXCEPT ![t] = "get"]
  /\ pready' = [pready EXCEPT ![t] = key_ready]
  /\ pret' = [pret EXCEPT ![t] = "none"]
  /\ UNCHANGED <<key_ready, key_created, pabort, single_value, specific, parg,
                 pown, pany>>

\* what g_private_get can return: key->single_value, the thread's native
\* value, or, with a key that was not created (undefined by POSIX), anything
GetResults(t) ==
  IF ~pready[t] THEN {single_value}
  ELSE IF key_created THEN {pthread_getspecific(t)}
  ELSE Pointers

g_private_get(t) ==
  /\ ~pabort
  /\ ppc[t] = "get"
  /\ \E p \in GetResults(t) : pret' = [pret EXCEPT ![t] = p]
  /\ ppc' = [ppc EXCEPT ![t] = "idle"]
  /\ UNCHANGED <<key_ready, key_created, pabort, single_value, specific,
                 pready, parg, pown, pany, pcalls>>

\* entry of g_private_set: the test of key->ready
g_private_set_call(t, value) ==
  /\ ~pabort
  /\ ppc[t] = "idle"
  /\ pcalls < MaxCalls
  /\ pcalls' = pcalls + 1
  /\ ppc' = [ppc EXCEPT ![t] = "set"]
  /\ pready' = [pready EXCEPT ![t] = key_ready]
  /\ parg' = [parg EXCEPT ![t] = value]
  /\ pret' = [pret EXCEPT ![t] = "none"]
  /\ pown' = [pown EXCEPT ![t] = IF key_ready THEN value ELSE pown[t]]
  /\ UNCHANGED <<key_ready, key_created, pabort, single_value, specific, pany>>

\* the statuses of pthread_setspecific: 0 for a key that exists; EINVAL, or
\* a store under whatever key the bits denote, for one that was not created
SetStatuses == IF key_created THEN {0} ELSE {0, EINVAL}

\* g_private_set: stores into key->single_value or through
\* pthread_setspecific, and on a status other than 0 calls g_thread_abort
\* (status, "pthread_setspecific"), which ends the process
g_private_set(t) ==
  /\ ~pabort
  /\ ppc[t] = "set"
  /\ IF ~pready[t]
       THEN /\ single_value' = parg[t]
            /\ pany' = parg[t]
            /\ UNCHANGED <<specific, pabort>>
       ELSE \E st \in SetStatuses :
              /\ specific' = IF st = 0 THEN pthread_setspecific(t, parg[t])
                                       ELSE specific
              /\ pabort' = (st # 0)
              /\ UNCHANGED <<single_value, pany>>
  /\ ppc' = [ppc EXCEPT ![t] = "idle"]
  /\ parg' = [parg EXCEPT ![t] = "NULL"]
  /\ UNCHANGED <<key_ready, key_created, pready, pret, pown, pcalls>>

\* --------------------------------------------------------------- GThread
\* the handles g_system_thread_create fills in
ThreadHandles == {"h1", "h2"}

\* the status of a native call that was not made
NotCalled == 0 - 1

\* what the native calls of one g_system_thread_create call would return
CreateStatuses ==
  [init : {0, EINVAL}, stack : {0, EINVAL}, detach : {0, EINVAL},
   create : {0, EAGAIN, EINVAL}, destroy : {0, EINVAL}]

NoCreate ==
  [init |-> NotCalled, stack |-> NotCalled, detach |-> NotCalled,
   create |-> NotCalled, destroy |-> NotCalled, outcome |-> "none"]

\* the native calls g_system_thread_create makes, in order, up to the first
\* one that posix_check_cmd finds failed; HAVE_PTHREAD_ATTR_SETSTACKSIZE is
\* taken as defined, and the status of pthread_attr_setstacksize is not
\* looked at
CreateCalls(stack_size, s) ==
  LET detach == IF s.init = 0 THEN s.detach ELSE NotCalled
      made == detach = 0
  IN [init |-> s.init,
      stack |-> IF s.init = 0 /\ stack_size # 0 THEN s.stack ELSE NotCalled,
      detach |-> detach,
      create |-> IF made THEN s.create ELSE NotCalled,
      destroy |-> IF made THEN s.destroy ELSE NotCalled,
      outcome |-> "none"]

CreateRuns(stack_size) == {CreateCalls(stack_size, s) : s \in CreateStatuses}

\* variant: every status other than success is fatal
CreateOutcome_all_fatal(r) ==
  IF r.create = 0 /\ r.destroy = 0 THEN "returned" ELSE "aborted"

\* posix_check_cmd / posix_check_err end in g_error, which terminates the
\* process; EAGAIN from pthread_create is looked at after the check of
\* pthread_attr_destroy
CreateOutcome(r) ==
  IF r.init # 0 THEN "aborted"
  ELSE IF r.detach # 0 THEN "aborted"
  ELSE IF r.destroy # 0 THEN "aborted"
  ELSE IF r.create = EAGAIN THEN "error"
  ELSE IF r.create # 0 THEN "aborted"
  ELSE "returned"

g_system_thread_create(c, thread_func, stack_size, joinable, r) ==
  /\ ~aborted
  /\ th_state[c] = "none"
  /\ IF thread_func = "NULL"
       THEN \* g_return_if_fail (thread_func)
            /\ cr' = [NoCreate EXCEPT !.outcome = "returned"]
            /\ gerror' = "none"
            /\ UNCHANGED <<th_state, th_joinable, aborted>>
       ELSE LET o == CreateOutcome(r)
            IN /\ cr' = [r EXCEPT !.outcome = o]
               /\ gerror' = IF o = "error" THEN "G_THREAD_ERROR_AGAIN" ELSE "none"
               /\ aborted' = (o = "aborted")
               /\ IF r.create = 0
                    THEN /\ th_state' = [th_state EXCEPT ![c] = "running"]
                         /\ th_joinable' = [th_joinable EXCEPT ![c] = joinable]
                    ELSE UNCHANGED <<th_state, th_joinable>>
  /\ UNCHANGED <<th_joined, th_effects, th_seen>>

\* the started function performs a side effect
ThreadRun(c) ==
  /\ ~aborted
  /\ th_state[c] = "running"
  /\ th_effects[c] < MaxInc
  /\ th_effects' = [th_effects EXCEPT ![c] = th_effects[c] + 1]
  /\ UNCHANGED <<th_state, th_joinable, th_joined, th_seen, gerror, aborted,
                 cr>>

\* the started function returns
ThreadReturn(c) ==
  /\ ~aborted
  /\ th_state[c] = "running"
  /\ th_state' = [th_state EXCEPT ![c] = "returned"]
  /\ UNCHANGED <<th_joinable, th_joined, th_effects, th_seen, gerror, aborted,
                 cr>>

\* g_system_thread_exit, called by the started function: pthread_exit
g_system_thread_exit(c) ==
  /\ ~aborted
  /\ th_state[c] = "running"
  /\ th_state' = [th_state EXCEPT ![c] = "exited"]
  /\ UNCHANGED <<th_joinable, th_joined, th_effects, th_seen, gerror, aborted,
                 cr>>

\* variant: the native join does not wait for the target
pthread_join_done_nowait(c) == TRUE

\* pthread_join returns 0 once the target thread has terminated
pthread_join_done(c) == th_state[c] \in {"returned", "exited"}

\* g_system_thread_join on a joinable thread not joined before; a status
\* other than 0 comes back at once and ends in g_error
g_system_thread_join(c, st) ==
  /\ ~aborted
  /\ th_state[c] # "none"
  /\ th_joinable[c]
  /\ ~th_joined[c]
  /\ IF st = 0
       THEN /\ pthread_join_done(c)
            /\ th_joined' = [th_joined EXCEPT ![c] = TRUE]
            /\ th_seen' = [th_seen EXCEPT ![c] = th_effects[c]]
            /\ UNCHANGED aborted
       ELSE /\ aborted' = TRUE
            /\ UNCHANGED <<th_joined, th_seen>>
  /\ UNCHANGED <<th_state, th_joinable, th_effects, gerror, cr>>

\* ----------------------------------------------- native statuses, abort
\* the statuses a native call can hand back: success, the two expected
\* conditions and three unexpected ones; only pthread_cond_timedwait times
\* out
NativeStatuses(native) ==
  IF native = "pthread_cond_timedwait"
    THEN {0, EBUSY, ETIMEDOUT, EAGAIN, EINVAL, EPERM}
    ELSE {0, EBUSY, EAGAIN, EINVAL, EPERM}

strerror(st) ==
  CASE st = EBUSY -> "Device or resource busy"
    [] st = ETIMEDOUT -> "Connection timed out"
    [] st = EAGAIN -> "Resource temporarily unavailable"
    [] st = EINVAL -> "Invalid argument"
    [] st = EPERM -> "Operation not permitted"
    [] OTHER -> "Success"

NoDiag == [operation |-> "none", status |-> "none"]

\* the operation returns value to its caller
Return(value) == [result |-> value, diag |-> NoDiag]

\* g_thread_abort: fprintf ("... during '%s': %s. Aborting.", strerror
\* (status), function), then abort ()
g_thread_abort(st, function) ==
  [result |-> "aborted",
   diag |-> [operation |-> strerror(st), status |-> function]]

g_mutex_init_status(st) ==
  IF st # 0 THEN g_thread_abort(st, "pthread_mutex_init") ELSE Return("void")

g_mutex_clear_status(st) ==
  IF st # 0 THEN g_thread_abort(st, "pthread_mutex_destroy") ELSE Return("void")

\* variant: the status of pthread_mutex_lock is not looked at
g_mutex_lock_status_unchecked(st) == Return("void")

g_mutex_lock_status(st) ==
  IF st # 0 THEN g_thread_abort(st, "pthread_mutex_lock") ELSE Return("void")

g_mutex_unlock_status(st) ==
  IF st # 0 THEN g_thread_abort(st, "pthread_mutex_lock") ELSE Return("void")

g_mutex_trylock_status(st) ==
  IF st = 0 THEN Return("TRUE")
  ELSE IF st # EBUSY THEN g_thread_abort(st, "pthread_mutex_trylock")
  ELSE Return("FALSE")

\* the GRecMutex operations do not look at the status, g_rec_mutex_trylock
\* only at whether it is 0
g_rec_mutex_init_status(st) == Return("void")

g_rec_mutex_lock_status(st) == Return("void")

g_rec_mutex_unlock_status(st) == Return("void")

g_rec_mutex_trylock_status(st) ==
  IF st # 0 THEN Return("FALSE") ELSE Return("TRUE")

\* nor do the GRWLock operations
g_rw_lock_init_status(st) == Return("void")

g_rw_lock_clear_status(st) == Return("void")

g_rw_lock_writer_lock_status(st) == Return("void")

g_rw_lock_writer_trylock_status(st) ==
  IF st # 0 THEN Return("FALSE") ELSE Return("TRUE")

g_rw_lock_writer_unlock_status(st) == Return("void")

g_rw_lock_reader_lock_status(st) == Return("void")

g_rw_lock_reader_trylock_status(st) ==
  IF st # 0 THEN Return("FALSE") ELSE Return("TRUE")

g_rw_lock_reader_unlock_status(st) == Return("void")

g_cond_init_status(st) ==
  IF st # 0 THEN g_thread_abort(st, "pthread_cond_init") ELSE Return("void")

g_cond_clear_status(st) ==
  IF st # 0 THEN g_thread_abort(st, "pthread_cond_destroy") ELSE Return("void")

g_cond_wait_status(st) ==
  IF st # 0 THEN g_thread_abort(st, "pthread_cond_wait") ELSE Return("void")

g_cond_signal_status(st) ==
  IF st # 0 THEN g_thread_abort(st, "pthread_cond_signal") ELSE Return("void")

g_cond_broadcast_status(st) ==
  IF st # 0 THEN g_thread_abort(st, "pthread_cond_broadcast") ELSE Return("void")

\* with abs_time NULL: g_cond_wait (cond, mutex); return TRUE
g_cond_timed_wait_status(abs_time, st) ==
  IF abs_time = NULL
    THEN IF g_cond_wait_status(st).result = "aborted"
           THEN g_cond_wait_status(st)
           ELSE Return("TRUE")
  ELSE IF st = 0 THEN Return("TRUE")
  ELSE IF st # ETIMEDOUT THEN g_thread_abort(st, "pthread_cond_timedwait")
  ELSE Return("FALSE")

g_cond_timedwait_status(st) ==
  IF st = 0 THEN Return("TRUE")
  ELSE IF st # ETIMEDOUT THEN g_thread_abort(st, "pthread_cond_timedwait")
  ELSE Return("FALSE")

\* pthread_key_create (&key->key, notify); key->ready = TRUE
g_private_init_status(st) == Return("void")

\* g_private_set on a ready slot
g_private_set_status(st) ==
  IF st # 0 THEN g_thread_abort(st, "pthread_setspecific") ELSE Return("void")

\* one call of an operation whose native call returns st
ApiCall(op, native, st, out) ==
  /\ ~ab_terminated
  /\ st \in NativeStatuses(native)
  /\ ab_op' = op
  /\ ab_native' = native
  /\ ab_status' = st
  /\ ab_result' = out.result
  /\ diag' = out.diag
  /\ ab_terminated' = (out.result = "aborted")

MutexCall(st) ==
  \/ ApiCall("g_mutex_init", "pthread_mutex_init", st, g_mutex_init_status(st))
  \/ ApiCall("g_mutex_clear", "pthread_mutex_destroy", st, g_mutex_clear_status(st))
  \/ ApiCall("g_mutex_lock", "pthread_mutex_lock", st, g_mutex_lock_status(st))
  \/ ApiCall("g_mutex_unlock", "pthread_mutex_unlock", st, g_mutex_unlock_status(st))
  \/ ApiCall("g_mutex_trylock", "pthread_mutex_trylock", st, g_mutex_trylock_status(st))

RecMutexCall(st) ==
  \/ ApiCall("g_rec_mutex_init", "pthread_mutex_init", st, g_rec_mutex_init_status(st))
  \/ ApiCall("g_rec_mutex_lock", "pthread_mutex_lock", st, g_rec_mutex_lock_status(st))
  \/ ApiCall("g_rec_mutex_unlock", "pthread_mutex_unlock", st, g_rec_mutex_unlock_status(st))
  \/ ApiCall("g_rec_mutex_trylock", "pthread_mutex_trylock", st, g_rec_mutex_trylock_status(st))

RWLockCall(st) ==
  \/ ApiCall("g_rw_lock_init", "pthread_rwlock_init", st, g_rw_lock_init_status(st))
  \/ ApiCall("g_rw_lock_clear", "pthread_rwlock_destroy", st, g_rw_lock_clear_status(st))
  \/ ApiCall("g_rw_lock_writer_lock", "pthread_rwlock_wrlock", st,
             g_rw_lock_writer_lock_status(st))
  \/ ApiCall("g_rw_lock_writer_trylock", "pthread_rwlock_trywrlock", st,
             g_rw_lock_writer_trylock_status(st))
  \/ ApiCall("g_rw_lock_writer_unlock", "pthread_rwlock_unlock", st,
             g_rw_lock_writer_unlock_status(st))
  \/ ApiCall("g_rw_lock_reader_lock", "pthread_rwlock_rdlock", st,
             g_rw_lock_reader_lock_status(st))
  \/ ApiCall("g_rw_lock_reader_trylock", "pthread_rwlock_tryrdlock", st,
             g_rw_lock_reader_trylock_status(st))
  \/ ApiCall("g_rw_lock_reader_unlock", "pthread_rwlock_unlock", st,
             g_rw_lock_reader_unlock_status(st))

CondCall(st) ==
  \/ ApiCall("g_cond_init", "pthread_cond_init", st, g_cond_init_status(st))
  \/ ApiCall("g_cond_clear", "pthread_cond_destroy", st, g_cond_clear_status(st))
  \/ ApiCall("g_cond_wait", "pthread_cond_wait", st, g_cond_wait_status(st))
  \/ ApiCall("g_cond_signal", "pthread_cond_signal", st, g_cond_signal_status(st))
  \/ ApiCall("g_cond_broadcast", "pthread_cond_broadcast", st,
             g_cond_broadcast_status(st))
  \/ ApiCall("g_cond_timedwait", "pthread_cond_timedwait", st,
             g_cond_timedwait_status(st))

CondTimedWaitCall(abs_time, st) ==
  ApiCall("g_cond_timed_wait",
          IF abs_time = NULL THEN "pthread_cond_wait" ELSE "pthread_cond_timedwait",
          st, g_cond_timed_wait_status(abs_time, st))

PrivateCall(st) ==
  \/ ApiCall("g_private_init", "pthread_key_create", st, g_private_init_status(st))
  \/ ApiCall("g_private_set", "pthread_setspecific", st, g_private_set_status(st))

\* --------------------------------------------------------- specification
InitMC ==
  /\ pc = [t \in Threads |-> "out"]
  /\ mutex_locked = FALSE
  /\ cond_waiters = {}
  /\ status = [t \in Threads |-> 0]
  /\ waitfn = [t \in Threads |-> "none"]
  /\ end_time = [t \in Threads |-> NULL]
  /\ wake = [t \in Threads |-> "none"]
  /\ ret = [t \in Threads |-> "none"]
  /\ now = 0
  /\ counter = 0
  /\ tmp = [t \in Threads |-> 0]
  /\ done = [t \in Threads |-> 0]
  /\ calls = 0

\* g_rw_lock_init: an unlocked native read-write lock
InitRWLock ==
  /\ rw_writer = FALSE
  /\ rw_readers = 0
  /\ rwpc = [t \in Threads |-> "run"]
  /\ rheld = [t \in Threads |-> 0]
  /\ wheld = [t \in Threads |-> FALSE]
  /\ rwret = [t \in Threads |-> "none"]

InitRW == InitRWLock /\ rw_prefer_writer \in BOOLEAN

IdleRW == InitRWLock /\ rw_prefer_writer = FALSE

InitRecThreads ==
  /\ rec_owner = [h \in Handles |-> 0]
  /\ rec_count = [h \in Handles |-> 0]
  /\ rec_crashed = FALSE
  /\ rpc = [t \in Threads |-> "run"]
  /\ rop = [t \in Threads |-> "none"]
  /\ rimpl = [t \in Threads |-> 0]
  /\ held = [t \in Threads |-> 0]
  /\ rret = [t \in Threads |-> "none"]

IdleRec ==
  /\ InitRecThreads
  /\ rec_impl = 0
  /\ rec_live = {}
  /\ rec_two_reads = FALSE

\* the GPrivate slot: zero-initialised (static), not ready
InitPrivate ==
  /\ key_ready = FALSE
  /\ key_created = FALSE
  /\ pabort = FALSE
  /\ single_value = "NULL"
  /\ specific = [t \in Threads |-> "NULL"]
  /\ ppc = [t \in Threads |-> "idle"]
  /\ pready = [t \in Threads |-> FALSE]
  /\ parg = [t \in Threads |-> "NULL"]
  /\ pret = [t \in Threads |-> "none"]
  /\ pown = [t \in Threads |-> "NULL"]
  /\ pany = "NULL"
  /\ pcalls = 0

\* no thread created yet
InitThread ==
  /\ th_state = [c \in ThreadHandles |-> "none"]
  /\ th_joinable = [c \in ThreadHandles |-> FALSE]
  /\ th_joined = [c \in ThreadHandles |-> FALSE]
  /\ th_effects = [c \in ThreadHandles |-> 0]
  /\ th_seen = [c \in ThreadHandles |-> 0]
  /\ gerror = "none"
  /\ aborted = FALSE
  /\ cr = NoCreate

\* no operation called yet
InitAbort ==
  /\ ab_op = "none"
  /\ ab_native = "none"
  /\ ab_status = 0
  /\ ab_result = "none"
  /\ diag = NoDiag
  /\ ab_terminated = FALSE

\* the handle g_rec_mutex_init allocated, if it was called
InitLedger ==
  /\ rec_allocs = Cardinality(rec_live)
  /\ rec_frees = 0
  /\ rec_cleared = FALSE

\* no timed wait called yet
InitDeadline ==
  /\ dl_fn = "none"
  /\ dl_abs = NULL
  /\ dl_end = NULL
  /\ dl_now = 0

IdleExt ==
  InitPrivate /\ InitThread /\ InitAbort /\ InitLedger /\ InitDeadline

Init == InitMC /\ IdleRW /\ IdleRec /\ IdleExt

\* a step of one primitive leaves the other primitives alone
FrameMC == UNCHANGED <<rwvars, recvars, extvars>>

FrameRW ==
  UNCHANGED <<pc, mutex_locked, cond_waiters, status, waitfn, end_time, wake,
              ret, now, counter, tmp, done, recvars, extvars>>

\* the GMutex alone, with the callers' counter
NextMutex ==
  \/ \E t \in Threads : g_mutex_lock(t) /\ FrameMC
  \/ \E t \in Threads : g_mutex_unlock(t) /\ FrameMC
  \/ \E t \in Threads : g_mutex_trylock(t) /\ FrameMC
  \/ \E t \in Threads : IncRead(t) /\ FrameMC
  \/ \E t \in Threads : IncWrite(t) /\ FrameMC

SpecMutex == Init /\ [][NextMutex]_vars

\* the GCond with its GMutex
Next ==
  \/ \E t \in Threads : g_mutex_lock(t) /\ FrameMC
  \/ \E t \in Threads : g_mutex_unlock(t) /\ FrameMC
  \/ \E t \in Threads : g_cond_wait(t) /\ FrameMC
  \/ \E t \in Threads : \E a \in GTimeVals \cup {NULL} : g_cond_timed_wait(t, a) /\ FrameMC
  \/ \E t \in Threads : \E a \in AbsTimes : g_cond_timedwait(t, a) /\ FrameMC
  \/ \E t \in Threads : g_cond_signal(t) /\ FrameMC
  \/ \E t \in Threads : g_cond_broadcast(t) /\ FrameMC
  \/ \E t \in Threads : Timeout(t) /\ FrameMC
  \/ \E t \in Threads : SpuriousWakeup(t) /\ FrameMC
  \/ \E t \in Threads : WaitReturn(t) /\ FrameMC
  \/ Tick /\ FrameMC

Spec == Init /\ [][Next]_vars

\* the GRWLock
InitRWSpec == InitMC /\ InitRW /\ IdleRec /\ IdleExt

NextRW ==
  \/ \E t \in Threads : g_rw_lock_writer_lock_call(t) /\ FrameRW
  \/ \E t \in Threads : g_rw_lock_writer_lock(t) /\ FrameRW
  \/ \E t \in Threads : g_rw_lock_writer_trylock(t) /\ FrameRW
  \/ \E t \in Threads : g_rw_lock_writer_unlock(t) /\ FrameRW
  \/ \E t \in Threads : g_rw_lock_reader_lock_call(t) /\ FrameRW
  \/ \E t \in Threads : g_rw_lock_reader_lock(t) /\ FrameRW
  \/ \E t \in Threads : g_rw_lock_reader_trylock(t) /\ FrameRW
  \/ \E t \in Threads : g_rw_lock_reader_unlock(t) /\ FrameRW

SpecRW == InitRWSpec /\ [][NextRW]_vars

\* the GRWLock under a scheduler that lets every thread run: a native call
\* that can return does, and a holder releases
FairnessRW ==
  \A t \in Threads :
    /\ WF_vars(g_rw_lock_reader_lock(t) /\ FrameRW)
    /\ WF_vars(g_rw_lock_writer_lock(t) /\ FrameRW)
    /\ WF_vars(g_rw_lock_writer_unlock(t) /\ FrameRW)

FairSpecRW == SpecRW /\ FairnessRW

\* the GRecMutex: zero-initialised (static) or set up by g_rec_mutex_init
InitRec ==
  /\ InitRecThreads
  /\ rec_two_reads \in BOOLEAN
  /\ \/ rec_impl = 0 /\ rec_live = {}
     \/ rec_impl = InitHandle /\ rec_live = {InitHandle}

InitRecSpec == InitMC /\ IdleRW /\ InitRec /\ IdleExt

FrameRec ==
  UNCHANGED <<pc, mutex_locked, cond_waiters, status, waitfn, end_time, wake,
              ret, now, counter, tmp, done, rwvars, extvars>>

NextRec ==
  \/ \E t \in Threads : g_rec_mutex_lock_call(t) /\ FrameRec
  \/ \E t \in Threads : g_rec_mutex_trylock_call(t) /\ FrameRec
  \/ \E t \in Threads : g_rec_mutex_get_impl_test(t) /\ FrameRec
  \/ \E t \in Threads : g_rec_mutex_impl_new(t) /\ FrameRec
  \/ \E t \in Threads : g_rec_mutex_get_impl_cas(t) /\ FrameRec
  \/ \E t \in Threads : g_rec_mutex_get_impl_reread(t) /\ FrameRec
  \/ \E t \in Threads : RecNullHandle(t) /\ FrameRec
  \/ \E t \in Threads : g_rec_mutex_lock(t) /\ FrameRec
  \/ \E t \in Threads : g_rec_mutex_trylock(t) /\ FrameRec
  \/ \E t \in Threads : g_rec_mutex_unlock(t) /\ FrameRec

SpecRec == InitRecSpec /\ [][NextRec]_vars

\* the GPrivate slot
FramePrivate ==
  UNCHANGED <<mcvars, rwvars, recvars, thrvars, abvars, clrvars, dlvars>>

NextPrivate ==
  \/ \E t \in Threads : g_private_init(t, 0) /\ FramePrivate
  \/ \E t \in Threads : g_private_get_call(t) /\ FramePrivate
  \/ \E t \in Threads : g_private_get(t) /\ FramePrivate
  \/ \E t \in Threads : \E v \in Pointers : g_private_set_call(t, v) /\ FramePrivate
  \/ \E t \in Threads : g_private_set(t) /\ FramePrivate

SpecPrivate == Init /\ [][NextPrivate]_vars

\* the statuses of pthread_key_create: success, or no key left
KeyCreateStatuses == {0, EAGAIN}

\* the GPrivate slot when the native key creation can fail
NextPrivateInit ==
  \/ \E t \in Threads : \E st \in KeyCreateStatuses :
       g_private_init(t, st) /\ FramePrivate
  \/ \E t \in Threads : g_private_get_call(t) /\ FramePrivate
  \/ \E t \in Threads : g_private_get(t) /\ FramePrivate
  \/ \E t \in Threads : \E v \in Pointers : g_private_set_call(t, v) /\ FramePrivate
  \/ \E t \in Threads : g_private_set(t) /\ FramePrivate

SpecPrivateInit == Init /\ [][NextPrivateInit]_vars

\* the deadlines of the timed waits
FrameDeadline ==
  UNCHANGED <<mcvars, rwvars, recvars, privvars, thrvars, abvars, clrvars>>

NextDeadline ==
  \/ \E a \in DeadlineInt64s : DeadlineTimedwait(a) /\ FrameDeadline
  \/ \E a \in DeadlineTimeVals : DeadlineTimedWait(a) /\ FrameDeadline
  \/ DeadlineTick /\ FrameDeadline

SpecDeadline == Init /\ [][NextDeadline]_vars

\* thread creation, the started functions and join
FrameThread ==
  UNCHANGED <<mcvars, rwvars, recvars, privvars, abvars, clrvars, dlvars>>

NextThread ==
  \/ \E c \in ThreadHandles : \E f \in {"NULL", "func"} : \E z \in {0, 1} :
       \E j \in BOOLEAN : \E r \in CreateRuns(z) :
         g_system_thread_create(c, f, z, j, r) /\ FrameThread
  \/ \E c \in ThreadHandles : ThreadRun(c) /\ FrameThread
  \/ \E c \in ThreadHandles : ThreadReturn(c) /\ FrameThread
  \/ \E c \in ThreadHandles : g_system_thread_exit(c) /\ FrameThread
  \/ \E c \in ThreadHandles : \E st \in {0, EINVAL} :
       g_system_thread_join(c, st) /\ FrameThread

SpecThread == Init /\ [][NextThread]_vars

\* every operation against every status of its native call
AllStatuses == {0, EBUSY, ETIMEDOUT, EAGAIN, EINVAL, EPERM}

FrameAbort ==
  UNCHANGED <<mcvars, rwvars, recvars, privvars, thrvars, clrvars, dlvars>>

NextAbort ==
  \/ \E st \in AllStatuses : MutexCall(st) /\ FrameAbort
  \/ \E st \in AllStatuses : RecMutexCall(st) /\ FrameAbort
  \/ \E st \in AllStatuses : RWLockCall(st) /\ FrameAbort
  \/ \E st \in AllStatuses : CondCall(st) /\ FrameAbort
  \/ \E st \in AllStatuses : \E a \in GTimeVals \cup {NULL} :
       CondTimedWaitCall(a, st) /\ FrameAbort
  \/ \E st \in AllStatuses : PrivateCall(st) /\ FrameAbort

SpecAbort == Init /\ [][NextAbort]_vars

\* the GRecMutex up to its g_rec_mutex_clear, with the allocator's counts
FrameRecClear ==
  /\ UNCHANGED <<pc, mutex_locked, cond_waiters, status, waitfn, end_time,
                 wake, ret, now, counter, tmp, done, rwvars, privvars, thrvars,
                 abvars, dlvars>>
  /\ RecLedger

InUse == ~rec_cleared /\ UNCHANGED rec_cleared /\ FrameRecClear

\* init or first use, g_rec_mutex_lock and g_rec_mutex_unlock by any thread,
\* then one g_rec_mutex_clear
NextRecClear ==
  \/ \E t \in Threads : g_rec_mutex_lock_call(t) /\ InUse
  \/ \E t \in Threads : g_rec_mutex_get_impl_test(t) /\ InUse
  \/ \E t \in Threads : g_rec_mutex_impl_new(t) /\ InUse
  \/ \E t \in Threads : g_rec_mutex_get_impl_cas(t) /\ InUse
  \/ \E t \in Threads : g_rec_mutex_get_impl_reread(t) /\ InUse
  \/ \E t \in Threads : RecNullHandle(t) /\ InUse
  \/ \E t \in Threads : g_rec_mutex_lock(t) /\ InUse
  \/ \E t \in Threads : g_rec_mutex_unlock(t) /\ InUse
  \/ \E t \in Threads : g_rec_mutex_clear(t) /\ UNCHANGED calls /\ FrameRecClear

SpecRecClear == InitRecSpec /\ [][NextRecClear]_vars

\* the callers of C8 and C9 release the mutex they hold, and a thread whose
\* native wait has ended and finds the mutex free is scheduled
Fairness ==
  \A t \in Threads :
    /\ WF_vars(WaitReturn(t) /\ FrameMC)
    /\ WF_vars(g_mutex_unlock(t) /\ FrameMC)

FairSpec == Spec /\ Fairness

\* ------------------------------------------------------------- properties
RECURSIVE SumOver(_, _)
SumOver(f, S) ==
  IF S = {} THEN 0
  ELSE LET x == CHOOSE y \in S : TRUE IN f[x] + SumOver(f, S \ {x})

\* threads that entered a wait function and have not returned from it
InWait(t) == pc[t] \in {"parked", "woken"}

\* t has returned from a wait function and is still in the critical section
\* it returned into
Returned(t) == pc[t] \in {"in", "inc"} /\ waitfn[t] # "none"

\* C1: at most one thread holds the GMutex in every reachable state, the
\* native mutex is locked exactly while a thread holds it, and the shared
\* counter equals the number of increments made under the mutex (no lost
\* update): N threads that made C increments each leave it at N*C.
C1_MutualExclusion ==
  /\ Cardinality(Holders) <= 1
  /\ mutex_locked <=> Holders # {}
  /\ counter = SumOver(done, Threads)
  /\ (\A t \in Threads : done[t] = MaxInc) => counter = NThreads * MaxInc

C1_Witness ==
  /\ \A t \in Threads : done[t] = MaxInc
  /\ counter = NThreads * MaxInc
  /\ Holders = {}

C2_Writers == {t \in Threads : wheld[t]}

C2_Readers == {t \in Threads : rheld[t] > 0}

\* C2: at most one thread holds the write lock of the GRWLock, and while one
\* does no thread holds a read lock; the native lock is write-locked exactly
\* while a caller holds the write lock and counts exactly the read locks the
\* callers hold.
C2_ReaderWriterExclusion ==
  /\ Cardinality(C2_Writers) <= 1
  /\ C2_Writers # {} => C2_Readers = {}
  /\ rw_writer <=> C2_Writers # {}
  /\ rw_readers = SumOver(rheld, Threads)

C2_Witness ==
  \E w, r, v \in Threads :
    /\ wheld[w]
    /\ rwpc[r] = "rwait"
    /\ rwpc[v] = "wwait"

C5_BlockedInLock(u) == rpc[u] = "native" /\ rop[u] = "lock" /\ rimpl[u] # 0

C5_Counting ==
  /\ \A t \in Threads :
       held[t] > 0 =>
         /\ rec_impl # 0
         /\ rec_owner[rec_impl] = t
         /\ rec_count[rec_impl] = held[t]
         /\ \A u \in Threads \ {t} :
              /\ held[u] = 0
              /\ C5_BlockedInLock(u) => ~ENABLED g_rec_mutex_lock(u)
  /\ (\A t \in Threads : held[t] = 0) =>
       /\ \A h \in Handles : rec_owner[h] = 0 /\ rec_count[h] = 0
       /\ ~rec_crashed =>
            \A u \in Threads : C5_BlockedInLock(u) => ENABLED g_rec_mutex_lock(u)

C5_TrylockStep(u) ==
  g_rec_mutex_trylock(u) =>
    IF \E t \in Threads \ {u} : held[t] > 0
      THEN rret'[u] = "FALSE" /\ UNCHANGED <<rec_owner, rec_count, held>>
      ELSE rret'[u] = "TRUE" /\ held'[u] = held[u] + 1

\* C5: a thread that acquired the GRecMutex K times owns the native mutex
\* with count K; while it has made fewer than K unlocks no other thread holds
\* the mutex, every other thread's g_rec_mutex_lock stays blocked and every
\* other thread's g_rec_mutex_trylock returns FALSE and changes nothing; once
\* it has made K unlocks the native mutex is unowned with count 0 and another
\* thread's g_rec_mutex_lock can proceed.
C5_RecursiveCounting ==
  /\ []C5_Counting
  /\ [][\A u \in Threads : C5_TrylockStep(u)]_vars

C5_Witness ==
  \E t, u, v \in Threads :
    /\ held[t] = 2
    /\ C5_BlockedInLock(u)
    /\ rret[v] = "FALSE"

C6_TrylockStep(t) ==
  /\ (~mutex_locked =>
        mutex_locked' /\ pc'[t] = "in" /\ ret'[t] = "TRUE")
  /\ ((\E u \in Threads \ {t} : u \in Holders) =>
        /\ ret'[t] = "FALSE"
        /\ mutex_locked' = mutex_locked
        /\ pc' = pc
        /\ Holders' = Holders)
  /\ (ret'[t] = "TRUE" => Holders' = {t} /\ mutex_locked')

\* C6: g_mutex_trylock never blocks (it can be taken whenever the caller is
\* outside the mutex); on a free mutex it locks it for the caller and returns
\* TRUE; on a mutex held by another thread it returns FALSE and leaves the
\* holder and the lock state unchanged; TRUE is returned only to a caller that
\* now holds the mutex.
C6_Trylock ==
  /\ [](\A t \in Threads : (pc[t] = "out" /\ CanCall) => ENABLED g_mutex_trylock(t))
  /\ [][\A t \in Threads : g_mutex_trylock(t) => C6_TrylockStep(t)]_vars

C6_Witness ==
  \E t, u \in Threads :
    /\ t # u
    /\ pc[t] = "out" /\ ret[t] = "FALSE"
    /\ pc[u] = "in" /\ ret[u] = "TRUE"

\* C3: a thread that has returned from g_cond_wait, g_cond_timed_wait or
\* g_cond_timedwait holds the mutex (it is the only holder and the native
\* mutex is locked), whatever ended the wait; a parked thread does not hold
\* the mutex: when nobody else holds it the native mutex is unlocked and
\* another thread's g_mutex_lock can proceed.
C3_WaitHoldsMutex ==
  \A t \in Threads :
    /\ Returned(t) => (mutex_locked /\ Holders = {t})
    /\ t \in cond_waiters =>
         /\ t \notin Holders
         /\ Holders = {} =>
              /\ ~mutex_locked
              /\ \A u \in Threads :
                   (pc[u] = "out" /\ CanCall) => ENABLED g_mutex_lock(u)

C3_Witness ==
  \E t, u \in Threads :
    /\ Returned(t) /\ ret[t] = "FALSE" /\ wake[t] = "timeout"
    /\ u \in cond_waiters

C4_Registered ==
  \A t \in Threads :
    (InWait(t) /\ wake[t] = "none") => (t \in cond_waiters /\ t \notin Holders)

C4_Unwoken == {t \in Threads : InWait(t) /\ wake[t] = "none"}

\* C4: release-and-park is atomic: a thread inside a wait function whose
\* native wait has not ended yet is registered on the condition and does not
\* hold the mutex, so a g_cond_signal (g_cond_broadcast) made by a thread that
\* holds the mutex unblocks at least one (every one) of the threads that are
\* inside the wait and not yet unblocked.
C4_AtomicPark ==
  /\ []C4_Registered
  /\ [][\A s \in Threads :
          /\ (g_cond_signal(s) /\ pc[s] = "in" /\ C4_Unwoken # {}) =>
               \E t \in C4_Unwoken : pc'[t] = "woken" /\ wake'[t] = "signal"
          /\ (g_cond_broadcast(s) /\ pc[s] = "in") =>
               \A t \in C4_Unwoken : pc'[t] = "woken" /\ wake'[t] = "broadcast"
       ]_vars

C4_Witness ==
  \E s, t \in Threads :
    /\ pc[s] = "in" /\ waitfn[s] = "none"
    /\ pc[t] = "woken" /\ wake[t] = "signal" /\ waitfn[t] = "g_cond_wait"

C7_TimedReturned(t) == Returned(t) /\ waitfn[t] = "g_cond_timed_wait"

C7_ReturnValue ==
  \A t \in Threads :
    /\ C7_TimedReturned(t) =>
         /\ ret[t] \in {"TRUE", "FALSE"}
         /\ ret[t] = "TRUE" <=> wake[t] \in {"signal", "broadcast", "spurious"}
         /\ ret[t] = "FALSE" <=> wake[t] \in {"timeout", "past"}
         /\ ret[t] = "FALSE" => (end_time[t] # NULL /\ Passed(end_time[t]))
         /\ end_time[t] = NULL => ret[t] = "TRUE"
    /\ (t \in cond_waiters /\ end_time[t] = NULL) => ~ENABLED Timeout(t)

C7_EntryStep(t) ==
  (/\ pc[t] = "in"
   /\ InWait(t)'
   /\ waitfn'[t] = "g_cond_timed_wait"
   /\ end_time'[t] # NULL
   /\ Passed(end_time'[t]))
  => (pc'[t] = "woken" /\ status'[t] = ETIMEDOUT /\ t \notin cond_waiters')

C8_BroadcastStep(s) ==
  g_cond_broadcast(s) =>
    /\ cond_waiters' = {}
    /\ \A t \in cond_waiters : pc'[t] = "woken" /\ wake'[t] = "broadcast"

\* C8: g_cond_broadcast unblocks every thread parked on the condition at the
\* call (none stays parked), and each thread so unblocked eventually returns
\* from its wait holding the mutex.
C8_BroadcastWakesAll ==
  /\ [][\A s \in Threads : C8_BroadcastStep(s)]_vars
  /\ \A t \in Threads :
       (pc[t] = "woken" /\ wake[t] = "broadcast")
         ~> (Returned(t) /\ wake[t] = "broadcast" /\ mutex_locked)

C8_Witness ==
  \E t, u \in Threads :
    /\ t # u
    /\ wake[t] = "broadcast" /\ wake[u] = "broadcast"
    /\ Returned(t)
    /\ pc[u] = "woken"

C9_SignalStep(s) ==
  (g_cond_signal(s) /\ cond_waiters # {}) =>
    \E t \in cond_waiters :
      pc'[t] = "woken" /\ wake'[t] = "signal" /\ t \notin cond_waiters'

\* C9: g_cond_signal called with threads parked on the condition unblocks at
\* least one of them, and a thread so unblocked eventually returns from its
\* wait holding the mutex.
C9_SignalWakesOne ==
  /\ [][\A s \in Threads : C9_SignalStep(s)]_vars
  /\ \A t \in Threads :
       (pc[t] = "woken" /\ wake[t] = "signal")
         ~> (Returned(t) /\ wake[t] = "signal" /\ mutex_locked)

C9_Witness ==
  \E t \in Threads :
    Returned(t) /\ wake[t] = "signal" /\ waitfn[t] = "g_cond_wait"

\* C10 as claimed: one g_cond_signal call moves at most one parked waiter out
\* of the parked state.
C10_Original ==
  [][\A s \in Threads :
       g_cond_signal(s) => Cardinality(cond_waiters \ cond_waiters') <= 1]_vars

C10_NotifyStep(s) ==
  (g_cond_signal(s) \/ g_cond_broadcast(s)) =>
    /\ cond_waiters' \subseteq cond_waiters
    /\ \A t \in Threads \ cond_waiters :
         pc'[t] = pc[t] /\ status'[t] = status[t] /\ wake'[t] = wake[t]
    /\ cond_waiters = {} =>
         UNCHANGED <<pc, mutex_locked, cond_waiters, status, wake, waitfn,
                     end_time, ret>>

\* C10 as amended: one g_cond_signal call unblocks one or more of the threads
\* parked at the call and touches no other thread; g_cond_signal and
\* g_cond_broadcast called with no thread parked change nothing, and a thread
\* that parks afterwards has no wakeup pending: it stays parked until a later
\* call, a timeout or a spurious wakeup ends its wait.
C10_NotRemembered ==
  /\ [](\A t \in cond_waiters : pc[t] = "parked" /\ wake[t] = "none")
  /\ [][\A s \in Threads : C10_NotifyStep(s)]_vars

C10_Witness ==
  \E t, u \in Threads :
    /\ t # u
    /\ pc[t] = "woken" /\ wake[t] = "signal"
    /\ pc[u] = "woken" /\ wake[u] = "signal"
    /\ calls = 5

\* a g_private_get / g_private_set call of t that tested key->ready once the
\* slot was ready
C11_Stored(t) == ~(ppc[t] = "set" /\ pready[t])

C11_GetStep(t) ==
  (g_private_get(t) /\ pready[t]) => pret'[t] = pown[t]

C11_SetStep(t) ==
  (g_private_set(t) /\ pready[t]) =>
    \A u \in Threads \ {t} :
      /\ specific'[u] = specific[u]
      /\ pret'[u] = pret[u]
      /\ pown'[u] = pown[u]

\* C11: once the slot is ready, a g_private_get of thread T returns the value
\* of T's most recent g_private_set made since readiness, or NULL if T made
\* none; T's native value is that value whenever T is not inside a set; a
\* g_private_set of T changes no other thread's native value, returned value
\* or most recent set.
C11_ThreadLocalIsolation ==
  /\ [](key_ready => \A t \in Threads : C11_Stored(t) => specific[t] = pown[t])
  /\ [][\A t \in Threads : C11_GetStep(t) /\ C11_SetStep(t)]_vars

C11_Witness ==
  \E t, u, v \in Threads :
    /\ key_ready
    /\ pready[t] /\ pready[u] /\ pready[v]
    /\ ppc[t] = "idle" /\ ppc[u] = "idle" /\ ppc[v] = "idle"
    /\ pown[t] = "p1" /\ pret[t] = "p1"
    /\ pown[u] = "p2" /\ pret[u] = "p2"
    /\ pown[v] = "NULL" /\ pret[v] = "NULL"

C12_BeforeStep(t) ==
  /\ (g_private_get(t) /\ ~key_ready) => pret'[t] = pany
  /\ (g_private_set(t) /\ ~key_ready) =>
       /\ single_value' = parg[t]
       /\ specific' = specific

C12_AfterStep(t) ==
  /\ (g_private_get(t) /\ pready[t]) => pret'[t] = specific[t]
  /\ (g_private_set(t) /\ pready[t]) => single_value' = single_value
  /\ g_private_init(t, 0) => \A u \in Threads : specific'[u] = "NULL"

\* C12: before g_private_init the get and set of every thread work on the one
\* fallback value (get returns the value stored by the last set of any
\* thread, set stores nothing per thread); readiness is never taken back; a
\* get or set that tests readiness once the slot is ready neither reads nor
\* writes the fallback value; g_private_init leaves NULL as every thread's
\* value, so a thread that has made no set since readiness gets NULL whatever
\* was set before.
C12_OneWayReadiness ==
  /\ [](~key_ready => single_value = pany)
  /\ [](key_ready =>
          \A t \in Threads :
            (pown[t] = "NULL" /\ C11_Stored(t)) => pthread_getspecific(t) = "NULL")
  /\ [][key_ready => key_ready']_vars
  /\ [][\A t \in Threads : C12_BeforeStep(t) /\ C12_AfterStep(t)]_vars

C12_Witness ==
  \E t, u \in Threads :
    /\ key_ready
    /\ single_value = "p1"
    /\ ~pready[u] /\ pret[u] = "p1"
    /\ pready[t] /\ ppc[t] = "idle" /\ pret[t] = "NULL"

\* a g_system_thread_create call has been made and got past g_return_if_fail
C13_Called == cr.outcome # "none" /\ cr.init # NotCalled

\* C13 as claimed: EAGAIN from the native create call always gives the error
\* and a normal return; success sets no error; every other non-zero status of
\* the native create call or of any attribute call is fatal.
C13_Original ==
  C13_Called =>
    /\ cr.create = EAGAIN =>
         (cr.outcome = "error" /\ gerror = "G_THREAD_ERROR_AGAIN" /\ ~aborted)
    /\ cr.create = 0 => gerror = "none"
    /\ (\/ cr.init > 0 \/ cr.stack > 0 \/ cr.detach > 0 \/ cr.destroy > 0
        \/ cr.create \notin {NotCalled, 0, EAGAIN}) =>
         (cr.outcome = "aborted" /\ aborted)

\* the statuses that end a g_system_thread_create call in g_error
C13_Fatal ==
  \/ cr.init > 0
  \/ cr.detach > 0
  \/ cr.destroy > 0
  \/ cr.create \notin {NotCalled, 0, EAGAIN}

C13_StartStep ==
  \A c \in ThreadHandles : \A f \in {"NULL", "func"} : \A z \in {0, 1} :
    \A j \in BOOLEAN : \A r \in CreateRuns(z) :
      g_system_thread_create(c, f, z, j, r) =>
        IF f = "func" /\ r.create = 0
          THEN th_state'[c] = "running" /\ th_joinable'[c] = j
          ELSE th_state' = th_state

\* C13 as amended: the call is fatal exactly when pthread_attr_init,
\* pthread_attr_setdetachstate or pthread_attr_destroy returns non-zero or
\* pthread_create returns a status other than 0 and EAGAIN; the status of
\* pthread_attr_setstacksize is ignored; EAGAIN from pthread_create, with
\* pthread_attr_destroy successful, sets G_THREAD_ERROR_AGAIN and returns with
\* the process alive and no thread started; the error is set in no other case;
\* a thread is started exactly when pthread_create returns 0.
C13_CreateResult ==
  /\ [](C13_Called =>
          /\ cr.outcome = "aborted" <=> C13_Fatal
          /\ cr.outcome = "aborted" => aborted
          /\ (cr.create = EAGAIN /\ cr.destroy = 0) => cr.outcome = "error"
          /\ (cr.create = 0 /\ cr.destroy = 0) => cr.outcome = "returned")
  /\ [](gerror = "G_THREAD_ERROR_AGAIN" <=> cr.outcome = "error")
  /\ [][(cr'.outcome = "error" /\ cr' # cr) => (~aborted' /\ th_state' = th_state)]_vars
  /\ [][C13_StartStep]_vars

C13_Witness ==
  /\ cr.create = EAGAIN
  /\ cr.stack = EINVAL
  /\ cr.outcome = "error"
  /\ gerror = "G_THREAD_ERROR_AGAIN"
  /\ ~aborted
  /\ \A c \in ThreadHandles : th_state[c] = "none"

\* C14: g_system_thread_join on a joinable thread returns only in a state
\* where the target's start function has returned or the target has called
\* g_system_thread_exit; what the joiner sees at that return is every side
\* effect the started function performed, and none is performed afterwards.
C14_JoinOrdering ==
  /\ [](\A c \in ThreadHandles :
          th_joined[c] =>
            /\ th_joinable[c]
            /\ th_state[c] \in {"returned", "exited"}
            /\ th_seen[c] = th_effects[c])
  /\ [][\A c \in ThreadHandles :
          (th_joined'[c] /\ ~th_joined[c]) =>
            /\ th_state[c] \in {"returned", "exited"}
            /\ th_seen'[c] = th_effects[c]]_vars

C14_Witness ==
  \E c, d \in ThreadHandles :
    /\ th_joined[c] /\ th_state[c] = "returned" /\ th_seen[c] = MaxInc
    /\ th_joined[d] /\ th_state[d] = "exited" /\ th_seen[d] = 1

C15_Ops ==
  {"g_mutex_init", "g_mutex_clear", "g_mutex_lock", "g_mutex_unlock",
   "g_mutex_trylock", "g_cond_init", "g_cond_clear", "g_cond_wait",
   "g_cond_signal", "g_cond_broadcast", "g_cond_timed_wait", "g_cond_timedwait"}

\* the statuses that are no failure: success, EBUSY of a native trylock,
\* ETIMEDOUT of the native timed wait
C15_Expected ==
  {0} \cup (IF ab_native = "pthread_mutex_trylock" THEN {EBUSY} ELSE {})
      \cup (IF ab_native = "pthread_cond_timedwait" THEN {ETIMEDOUT} ELSE {})

C16_Ops ==
  {"g_rec_mutex_init", "g_rec_mutex_lock", "g_rec_mutex_unlock",
   "g_rec_mutex_trylock", "g_rw_lock_init", "g_rw_lock_reader_lock",
   "g_rw_lock_reader_trylock", "g_rw_lock_reader_unlock",
   "g_rw_lock_writer_lock", "g_rw_lock_writer_trylock",
   "g_rw_lock_writer_unlock", "g_private_init"}

C16_Expected ==
  {0} \cup (IF ab_native \in {"pthread_mutex_trylock", "pthread_rwlock_tryrdlock",
                              "pthread_rwlock_trywrlock"}
              THEN {EBUSY} ELSE {})

\* C16: a GRecMutex or GRWLock operation or g_private_init whose native call
\* returns an unexpected status (not success, not EBUSY of a trylock) ends in
\* the abort path and does not return to its caller.
C16_AbortEverywhere ==
  ab_op \in C16_Ops =>
    (ab_status \notin C16_Expected => (ab_result = "aborted" /\ ab_terminated))

\* C17: on every abort path the diagnostic has the native operation that
\* failed in its operation position and the string of the returned status in
\* its status position, and the process is terminated.
C17_DiagnosticIdentifiesFailure ==
  ab_result = "aborted" =>
    /\ diag.operation = ab_native
    /\ diag.status = strerror(ab_status)
    /\ ab_terminated

C18_ForeignOwner(u) == \E t \in Threads \ {u} : held[t] > 0

C18_TrylockStep(u) ==
  g_rec_mutex_trylock(u) =>
    /\ rret'[u] = "FALSE" =>
         (C18_ForeignOwner(u) /\ UNCHANGED <<rec_owner, rec_count, held>>)
    /\ ~C18_ForeignOwner(u) =>
         /\ rret'[u] = "TRUE"
         /\ held'[u] = held[u] + 1
         /\ rec_owner'[rimpl[u]] = u
         /\ rec_count'[rimpl[u]] = rec_count[rimpl[u]] + 1

\* C18: g_rec_mutex_trylock returns FALSE only while a different thread holds
\* the mutex, and then changes neither owner nor count; on a mutex that is
\* free or held by the caller it takes one more lock for the caller and
\* returns TRUE; this includes the first use of a zero-initialised GRecMutex:
\* the call always has a native handle to try.
C18_TrylockForeignOnly ==
  /\ [](\A u \in Threads :
          (rpc[u] = "native" /\ rop[u] = "trylock") => rimpl[u] # 0)
  /\ [](\A u \in Threads : rop[u] = "trylock" => ~rec_crashed)
  /\ [][\A u \in Threads : C18_TrylockStep(u)]_vars

C19_ClearStep(t) ==
  g_rec_mutex_clear(t) =>
    IF rec_impl = 0
      THEN UNCHANGED <<recvars, rec_allocs, rec_frees>>
      ELSE /\ rec_impl \in rec_live
           /\ rec_live' = rec_live \ {rec_impl}
           /\ rec_frees' = rec_frees + 1
           /\ rec_allocs' = rec_allocs
           /\ UNCHANGED <<rec_impl, rec_owner, rec_count>>

\* C19: g_rec_mutex_clear on a GRecMutex whose handle field is NULL allocates
\* nothing, frees nothing and changes nothing; on one whose handle was
\* allocated, by g_rec_mutex_init or by the first use, it frees that one live
\* handle and nothing else; after the clear as many handles have been freed
\* as were allocated, none is live, and nothing is allocated or freed again.
C19_ClearFreesAllocated ==
  /\ [](rec_cleared => (rec_allocs = rec_frees /\ rec_live = {}))
  /\ [](rec_allocs - rec_frees = Cardinality(rec_live))
  /\ [][\A t \in Threads : C19_ClearStep(t)]_vars
  /\ [][rec_cleared => UNCHANGED <<rec_live, rec_allocs, rec_frees>>]_vars

C19_Witness ==
  /\ rec_cleared
  /\ rec_allocs = 2
  /\ rec_frees = 2
  /\ rec_impl # 0
  /\ calls > 2

\* no thread holds the write lock or is inside g_rw_lock_writer_lock
C20_NoWriter == ~rw_writer /\ \A u \in Threads : ~wheld[u] /\ rwpc[u] # "wwait"

\* C20: while no thread holds or is acquiring the write lock, a thread inside
\* g_rw_lock_reader_lock can take the read lock however many read locks are
\* held, and a thread outside can call it, so the number of threads holding
\* the read lock at once can grow to all of them; the native lock counts
\* exactly the read locks acquired and not yet released, and the threads
\* holding one are never more than that count.
C20_ReaderConcurrency ==
  /\ C20_NoWriter =>
       \A t \in Threads :
         /\ rwpc[t] = "rwait" => ENABLED g_rw_lock_reader_lock(t)
         /\ (rwpc[t] = "run" /\ CanCall) => ENABLED g_rw_lock_reader_lock_call(t)
  /\ rw_readers = SumOver(rheld, Threads)
  /\ Cardinality(C2_Readers) <= rw_readers
  /\ rw_writer => C2_Readers = {}

C20_Witness ==
  /\ \A t \in Threads : rheld[t] > 0 /\ rwpc[t] = "run"
  /\ rw_readers >= NThreads
  /\ ~rw_writer

\* thread t holds a read lock and is inside a further g_rw_lock_reader_lock
C21_Reentering(t) == rwpc[t] = "rwait" /\ rheld[t] = 1

\* C21: a thread that holds a read lock and calls g_rw_lock_reader_lock again
\* eventually returns holding the lock twice, also while another thread is
\* blocked in g_rw_lock_writer_lock.
C21_RecursiveReadReturns ==
  \A t \in Threads :
    C21_Reentering(t) ~> (rwpc[t] = "run" /\ rheld[t] = 2)

\* a thread other than t holds a read or write lock
C22_OtherHolds(t) == \E u \in Threads \ {t} : wheld[u] \/ rheld[u] > 0

\* any thread, t included, holds a read or write lock
C22_AnyHolds == \E u \in Threads : wheld[u] \/ rheld[u] > 0

\* a trylock step of t that returns FALSE changes no lock state
C22_Refused(t) ==
  /\ rwret'[t] = "FALSE"
  /\ UNCHANGED <<rw_writer, rw_readers, rheld, wheld, rwpc>>

C22_WriterTaken(t) ==
  /\ rwret'[t] = "TRUE"
  /\ rw_writer' /\ wheld' = [wheld EXCEPT ![t] = TRUE]
  /\ UNCHANGED <<rw_readers, rheld, rwpc>>

C22_ReaderTaken(t) ==
  /\ rwret'[t] = "TRUE"
  /\ rw_readers' = rw_readers + 1
  /\ rheld' = [rheld EXCEPT ![t] = rheld[t] + 1]
  /\ UNCHANGED <<rw_writer, wheld, rwpc>>

C22_WriterStep(t) ==
  g_rw_lock_writer_trylock(t) =>
    IF C22_AnyHolds THEN C22_Refused(t) ELSE C22_WriterTaken(t)

C22_ReaderStep(t) ==
  g_rw_lock_reader_trylock(t) => (C22_Refused(t) \/ C22_ReaderTaken(t))

C23_RaceOver == \A t \in Threads : rpc[t] \notin {"cas", "reread"}

\* C23: for any number of threads making the first use of a zero-initialised
\* GRecMutex, the published handle never changes once set, every call of
\* g_rec_mutex_get_impl returns the published non-NULL handle, no handle
\* other than the published one is ever locked, and after the race exactly
\* the published handle is live (each losing candidate was freed).
C23_RaceFreeLazyAllocation ==
  /\ [](\A t \in Threads :
          rpc[t] = "native" => (rimpl[t] # 0 /\ rimpl[t] = rec_impl))
  /\ [](\A h \in Handles : rec_owner[h] # 0 => h = rec_impl)
  /\ []((C23_RaceOver /\ rec_impl # 0) => rec_live = {rec_impl})
  /\ [][rec_impl # 0 => rec_impl' = rec_impl]_vars

\* C24: g_cond_timedwait passes the native wait a deadline with
\* tv_sec * 1000000 + tv_nsec / 1000 equal to abs_time and tv_nsec within
\* 0..999999000; g_cond_timed_wait passes tv_sec unchanged and tv_nsec equal
\* to tv_usec * 1000, within 0..999999000; the deadline passed is the caller's
\* whatever the current time.
C24_DeadlinePreserved ==
  /\ dl_fn # "none" => (dl_end.tv_nsec >= 0 /\ dl_end.tv_nsec <= 999999000)
  /\ dl_fn = "g_cond_timedwait" =>
       dl_end.tv_sec * 1000000 + dl_end.tv_nsec \div 1000 = dl_abs
  /\ dl_fn = "g_cond_timed_wait" =>
       /\ dl_end.tv_sec = dl_abs.tv_sec
       /\ dl_end.tv_nsec = dl_abs.tv_usec * 1000

C24_Witness ==
  /\ dl_fn = "g_cond_timedwait"
  /\ dl_abs = 2047999999
  /\ dl_end = [tv_sec |-> 2047, tv_nsec |-> 999999000]
  /\ dl_now = MaxClock

\* a g_private_get or g_private_set of t saw key->ready set and is about to
\* make its native call
C25_UsesKey(t) == ppc[t] \in {"get", "set"} /\ pready[t]

\* C25: whenever the slot is marked ready its native key has been created,
\* and a g_private_get or g_private_set that saw it ready makes its native
\* call on a created key, also when pthread_key_create reported failure.
C25_ReadyImpliesKey ==
  /\ key_ready => key_created
  /\ \A t \in Threads : C25_UsesKey(t) => key_created

====
